---- MODULE Spec2Model ----
(***************************************************************************)
(* The task pipeline of sensor_project.ino (Arduino MEGA, FreeRTOS):       *)
(* TaskBlink, TaskReadSensors (Sensor Fusion), TaskReadNanoBoard (Link     *)
(* Frame Decoder), TaskProcessIncomingScore (Score Aggregator) and         *)
(* TaskDisplayOutput (Decision Renderer), the capacity-1 queue queue1      *)
(* between Decoder and Aggregator, the serial link and the LCD.            *)
(*                                                                         *)
(* The tasks share no variable except the LCD (written by Fusion, Decoder  *)
(* and Renderer) and the score windows (written by the Aggregator, read by *)
(* the Renderer).  Spec is the whole system.  The other specifications run *)
(* one group of tasks each, with the same actions: FusionSpec the Fusion   *)
(* task, PipelineSpec the inbound link, Decoder and Aggregator,            *)
(* FairPipelineSpec the same with Blink under a fair scheduler,            *)
(* BackpressureSpec the pipeline started with queue1 possibly full, and    *)
(* WindowSpec the window insertion applied to a sequence of items.         *)
(***************************************************************************)
EXTENDS Integers, Sequences, FiniteSets, TLC

\* ---------------------------------------------------------------- bounds
\* Every inbound byte sequence of at most MaxBytes bytes is delivered.
MaxBytes == 4
\* Number of values pushed through the window insertion in WindowSpec.
MaxInserts == 7

\* ------------------------------------------------------- program constants
MIN_TAR_DISTANCE == 150
MAX_TAR_DISTANCE == 210
SANITY_CEILING == 500
QUEUE_LENGTH == 1
WINDOW_SIZE == 5
LT_CHAR == 60
GT_CHAR == 62
ONE_CHAR == 49
ZERO_CHAR == 48
MINUS_CHAR == 45
CR_CHAR == 13
LF_CHAR == 10

\* ------------------------------------------------------------ input sets
\* Bytes the companion board puts on the inbound link: '<', '>' and two
\* payload bytes (3 and 200, the payloads of the end-to-end example).
Payloads == {3, 200}
Bytes == {LT_CHAR, GT_CHAR} \cup Payloads
\* Two well-formed frames back to back, delivered beyond MaxBytes.
TwoFrames == { <<LT_CHAR, p, GT_CHAR, LT_CHAR, q, GT_CHAR>> : p \in Payloads, q \in Payloads }
\* Distance samples (cm) around the thresholds 150, 210 and 500.
Distances == {-1, 0, 7, 149, 150, 151, 180, 209, 210, 211, 499, 500, 501}
\* float values in hundredths (90 is 0.90); 300 is a value outside [0, 1].
Floats == {0, 30, 90, 300}
\* Values `char c = "<"` can take: the low byte of the address of a string
\* literal, which the link layout decides.
MarkerChoices == {LT_CHAR, GT_CHAR, 3, 0}

Decoder == "T_ReadNanoBoard"
Aggregator == "T_ProcessIncomingScore"

VARIABLES
    START_CHAR, END_CHAR,      \* TaskReadNanoBoard locals, fixed by the build
    suspended,                 \* tasks in the scheduler's Suspended state
    fusionPc, tarDistance, currPirReading,
    txCycle,                   \* bytes the current Fusion cycle wrote to Serial
    link,                      \* Serial receive buffer (unread inbound bytes)
    consumed,                  \* history: bytes Serial.read() has returned
    decPc, transferInProgress, score, idx, readyForNewData,
    completed,                 \* history: score at each frame close
    dropped,                   \* history: frames dropped on send timeout
    queue1,
    aggPc, inputBuffer, recentPersonScores, recentNoPersonScores, numEntries,
    aggN,                      \* the value of numEntries read by the test at line 196
    aggStored,                 \* stores of the insertion that have reached memory
    received,                  \* history: items xQueueReceive has returned
    dispPc, avgPersonScore, avgNoPersonScore, verdict,
    dispI,                     \* the loop index i of line 222
    blinkPc, led,
    lcd

buildVars == <<START_CHAR, END_CHAR>>
fusionVars == <<fusionPc, tarDistance, currPirReading, txCycle>>
linkVars == <<link, consumed>>
decVars == <<decPc, transferInProgress, score, idx, readyForNewData, completed, dropped>>
windowVars == <<recentPersonScores, recentNoPersonScores, numEntries>>
absorbVars == <<aggN, aggStored>>
aggVars == <<aggPc, inputBuffer, received, absorbVars>>
dispVars == <<dispPc, avgPersonScore, avgNoPersonScore, verdict, dispI>>
blinkVars == <<blinkPc, led>>
vars == <<buildVars, suspended, fusionVars, linkVars, decVars, queue1, aggVars,
          windowVars, dispVars, blinkVars, lcd>>

\* ------------------------------------------------------------- helpers
\* Serial.read() returns 0..255; `char rc` is signed 8 bit on AVR.
ToChar(b) == IF b > 127 THEN b - 256 ELSE b

\* Variant of BitNot: the logical negation !x.
LogicalNot(b) == IF b THEN 0 ELSE 1

\* ~x on a bool promoted to int (two's complement).
BitNot(b) == IF b THEN -2 ELSE -1

Last(s) == s[Len(s)]

IsPrefix(s, t) == Len(s) <= Len(t) /\ SubSeq(t, 1, Len(s)) = s

\* Print::print(long): the decimal digits of n, most significant first.
RECURSIVE Digits(_)
Digits(n) == IF n < 10 THEN <<ZERO_CHAR + n>>
             ELSE Append(Digits(n \div 10), ZERO_CHAR + (n % 10))

PrintLong(n) == IF n < 0 THEN <<MINUS_CHAR>> \o Digits(-n) ELSE Digits(n)

\* Serial.println(long): the digits followed by "\r\n".
Println(n) == PrintLong(n) \o <<CR_CHAR, LF_CHAR>>

\* LiquidCrystal: two rows of printed texts and the cursor.
LcdBlank == [rows |-> << <<>>, <<>> >>, row |-> 0, col |-> 0]
LcdClear(l) == LcdBlank
LcdSetCursor(l, c, r) == [l EXCEPT !.row = r, !.col = c]
LcdPut(r, c, t) == IF c < Len(r) THEN [r EXCEPT ![c + 1] = t] ELSE Append(r, t)
LcdPrint(l, t) == [l EXCEPT !.rows[l.row + 1] = LcdPut(@, l.col, t), !.col = l.col + 1]

NoItem == [b0 |-> 0, person |-> 0, noPerson |-> 0]
ZeroWindow == [i \in 0..(WINDOW_SIZE - 1) |-> 0]
ZeroMean == [num |-> 0, den |-> 1]
\* The Renderer's two means are locals of its loop body (lines 219-220): before
\* its first cycle there is no mean; a zero denominator stands for that.
NoMean == [num |-> 0, den |-> 0]

\* ---------------------------------------------------------------- Init
\* Everything but the hand-off queue and the score windows.
InitOutsideWindows ==
    /\ START_CHAR \in MarkerChoices
    /\ END_CHAR \in MarkerChoices
    /\ suspended = {}
    /\ fusionPc = "sense" /\ tarDistance = 0 /\ currPirReading = FALSE /\ txCycle = <<>>
    /\ link = <<>> /\ consumed = <<>>
    /\ decPc = "poll" /\ transferInProgress = FALSE /\ score = 0 /\ idx = 0
    /\ readyForNewData = FALSE /\ completed = <<>> /\ dropped = 0
    /\ aggPc = "recv" /\ inputBuffer = NoItem /\ received = <<>>
    /\ aggN = 0 /\ aggStored = {}
    /\ dispPc = "mean" /\ avgPersonScore = NoMean /\ avgNoPersonScore = NoMean
    /\ verdict = "None" /\ dispI = 0
    /\ blinkPc = "pinMode" /\ led = "LOW"
    /\ lcd = LcdBlank

\* Lines 72-74: the windows and their entry count start zeroed.
InitTasks ==
    /\ InitOutsideWindows
    /\ recentPersonScores = ZeroWindow /\ recentNoPersonScores = ZeroWindow
    /\ numEntries = 0

\* The state after setup(): every task at its entry, queue1 empty.
Init == InitTasks /\ queue1 = <<>>

\* ------------------------------------------------- TaskReadSensors (Fusion)
\* Variant of Gate: inclusive bounds, the range [150, 210] of the comment at line 47.
GateInclusive(d, m) ==
    (d <= MAX_TAR_DISTANCE /\ d >= MIN_TAR_DISTANCE /\ d < SANITY_CEILING) /\ m

\* The gate of the if at line 128.
Gate(d, m) ==
    (d < MAX_TAR_DISTANCE /\ d > MIN_TAR_DISTANCE /\ d < SANITY_CEILING) /\ m

\* Lines 121-126: read both sensors; println the distance when the PIR is active.
FusionSense ==
    /\ fusionPc = "sense"
    /\ \E d \in Distances, m \in BOOLEAN :
         /\ tarDistance' = d
         /\ currPirReading' = m
         /\ txCycle' = IF m THEN Println(d) ELSE <<>>
    /\ fusionPc' = "gate"
    /\ UNCHANGED <<buildVars, suspended, linkVars, decVars, queue1, aggVars,
                   windowVars, dispVars, blinkVars, lcd>>

\* Lines 128-131, 137-140: evaluate the gate and write the capture byte.
FusionGate ==
    /\ fusionPc = "gate"
    /\ txCycle' = txCycle \o (IF Gate(tarDistance, currPirReading)
                               THEN <<ONE_CHAR>> ELSE <<ZERO_CHAR>>)
    /\ fusionPc' = "clear"
    /\ UNCHANGED <<buildVars, suspended, tarDistance, currPirReading, linkVars, decVars,
                   queue1, aggVars, windowVars, dispVars, blinkVars, lcd>>

\* Lines 132, 141: lcd.clear().
FusionClear ==
    /\ fusionPc = "clear"
    /\ lcd' = LcdClear(lcd)
    /\ fusionPc' = "print1"
    /\ UNCHANGED <<buildVars, suspended, tarDistance, currPirReading, txCycle, linkVars,
                   decVars, queue1, aggVars, windowVars, dispVars, blinkVars>>

\* Lines 133, 142: the first printed line.
FusionPrint1 ==
    /\ fusionPc = "print1"
    /\ IF Gate(tarDistance, currPirReading)
         THEN lcd' = LcdPrint(lcd, " Movement ") /\ fusionPc' = "cursor"
         ELSE lcd' = LcdPrint(lcd, " Standby ") /\ fusionPc' = "sense"
    /\ UNCHANGED <<buildVars, suspended, tarDistance, currPirReading, txCycle, linkVars,
                   decVars, queue1, aggVars, windowVars, dispVars, blinkVars>>

\* Line 134: lcd.setCursor(0, 1).
FusionCursor ==
    /\ fusionPc = "cursor"
    /\ lcd' = LcdSetCursor(lcd, 0, 1)
    /\ fusionPc' = "print2"
    /\ UNCHANGED <<buildVars, suspended, tarDistance, currPirReading, txCycle, linkVars,
                   decVars, queue1, aggVars, windowVars, dispVars, blinkVars>>

\* Line 135: the second printed line; the for(;;) loops.
FusionPrint2 ==
    /\ fusionPc = "print2"
    /\ lcd' = LcdPrint(lcd, " Detected! ")
    /\ fusionPc' = "sense"
    /\ UNCHANGED <<buildVars, suspended, tarDistance, currPirReading, txCycle, linkVars,
                   decVars, queue1, aggVars, windowVars, dispVars, blinkVars>>

FusionNext ==
    \/ FusionSense
    \/ FusionGate
    \/ FusionClear
    \/ FusionPrint1
    \/ FusionCursor
    \/ FusionPrint2

\* ------------------------------------------------------------ inbound link
Arrived == consumed \o link

\* A byte sequence the companion board may have sent so far.
Deliverable(s) ==
    \/ Len(s) <= MaxBytes
    \/ \E t \in TwoFrames : IsPrefix(s, t)

\* The UART receives one byte into the Serial receive buffer.
LinkArrive ==
    /\ \E b \in Bytes :
         /\ Deliverable(Append(Arrived, b))
         /\ link' = Append(link, b)
    /\ UNCHANGED <<buildVars, suspended, fusionVars, consumed, decVars, queue1, aggVars,
                   windowVars, dispVars, blinkVars, lcd>>

\* ---------------------------------------------- TaskReadNanoBoard (Decoder)
\* xQueueSend(queue1, &score, ...) copies sizeof(lastReadScore) = 8 bytes from
\* the address of the one-byte score: the first byte is score, the other seven
\* are the memory behind it.  The receiver reads the 8 bytes as two floats.
SentItems(sc) == { [b0 |-> sc, person |-> f, noPerson |-> g] : f \in Floats, g \in Floats }

\* Lines 158-161: the while condition holds, lcd.clear().
DecPoll ==
    /\ decPc = "poll"
    /\ Decoder \notin suspended
    /\ Len(link) > 0 /\ BitNot(readyForNewData) # 0
    /\ lcd' = LcdClear(lcd)
    /\ decPc' = "print"
    /\ UNCHANGED <<buildVars, suspended, fusionVars, linkVars, transferInProgress, score,
                   idx, readyForNewData, completed, dropped, queue1, aggVars, windowVars,
                   dispVars, blinkVars>>

\* Line 161: lcd.print(" Calculating... ").
DecPrint ==
    /\ decPc = "print"
    /\ Decoder \notin suspended
    /\ lcd' = LcdPrint(lcd, " Calculating... ")
    /\ decPc' = "read"
    /\ UNCHANGED <<buildVars, suspended, fusionVars, linkVars, transferInProgress, score,
                   idx, readyForNewData, completed, dropped, queue1, aggVars, windowVars,
                   dispVars, blinkVars>>

\* Lines 162-184: read one byte and run it through the frame state machine;
\* at a frame close, the xQueueSend attempt.
DecRead ==
    /\ decPc = "read"
    /\ Decoder \notin suspended
    /\ LET rc == ToChar(Head(link))
           sc == IF transferInProgress /\ rc # END_CHAR THEN rc ELSE score
       IN /\ link' = Tail(link)
          /\ consumed' = Append(consumed, Head(link))
          /\ score' = sc
          /\ IF transferInProgress /\ rc = END_CHAR
               THEN /\ idx' = 0
                    /\ transferInProgress' = FALSE
                    /\ readyForNewData' = TRUE
                    /\ completed' = Append(completed, sc)
                    /\ IF Len(queue1) < QUEUE_LENGTH
                         THEN /\ \E it \in SentItems(sc) : queue1' = Append(queue1, it)
                              /\ decPc' = "resume"
                         ELSE /\ queue1' = queue1
                              /\ decPc' = "sendwait"
               ELSE /\ transferInProgress' =
                          (transferInProgress \/ rc = START_CHAR)
                    /\ decPc' = "poll"
                    /\ UNCHANGED <<idx, readyForNewData, completed, queue1>>
    /\ UNCHANGED <<buildVars, suspended, fusionVars, dropped, aggVars, windowVars,
                   dispVars, blinkVars, lcd>>

\* Line 174: blocked in xQueueSend, a slot became free within the wait.
DecSendRetry ==
    /\ decPc = "sendwait"
    /\ Decoder \notin suspended
    /\ Len(queue1) < QUEUE_LENGTH
    /\ \E it \in SentItems(score) : queue1' = Append(queue1, it)
    /\ decPc' = "resume"
    /\ UNCHANGED <<buildVars, suspended, fusionVars, linkVars, transferInProgress, score,
                   idx, readyForNewData, completed, dropped, aggVars, windowVars,
                   dispVars, blinkVars, lcd>>

\* Line 174: the queue stayed full for pdMS_TO_TICKS(100); xQueueSend fails
\* and the if body is skipped.
DecSendTimeout ==
    /\ decPc = "sendwait"
    /\ Decoder \notin suspended
    /\ Len(queue1) >= QUEUE_LENGTH
    /\ dropped' = dropped + 1
    /\ decPc' = "poll"
    /\ UNCHANGED <<buildVars, suspended, fusionVars, linkVars, transferInProgress, score,
                   idx, readyForNewData, completed, queue1, aggVars, windowVars,
                   dispVars, blinkVars, lcd>>

\* Line 176: vTaskResume(T_ProcessIncomingScore).
DecResume ==
    /\ decPc = "resume"
    /\ Decoder \notin suspended
    /\ suspended' = suspended \ {Aggregator}
    /\ decPc' = "suspend"
    /\ UNCHANGED <<buildVars, fusionVars, linkVars, transferInProgress, score, idx,
                   readyForNewData, completed, dropped, queue1, aggVars, windowVars,
                   dispVars, blinkVars, lcd>>

\* Variant of DecSuspend: the Decoder goes on without suspending itself.
DecSuspendSkipped ==
    /\ decPc = "suspend"
    /\ Decoder \notin suspended
    /\ decPc' = "poll"
    /\ UNCHANGED <<buildVars, suspended, fusionVars, linkVars, transferInProgress, score,
                   idx, readyForNewData, completed, dropped, queue1, aggVars, windowVars,
                   dispVars, blinkVars, lcd>>

\* Line 177: vTaskSuspend(T_ReadNanoBoard); when resumed the loop goes on.
DecSuspend ==
    /\ decPc = "suspend"
    /\ Decoder \notin suspended
    /\ suspended' = suspended \cup {Decoder}
    /\ decPc' = "poll"
    /\ UNCHANGED <<buildVars, fusionVars, linkVars, transferInProgress, score, idx,
                   readyForNewData, completed, dropped, queue1, aggVars, windowVars,
                   dispVars, blinkVars, lcd>>

DecoderRun ==
    \/ DecPoll
    \/ DecPrint
    \/ DecRead
    \/ DecResume
    \/ DecSuspend

DecoderWait ==
    \/ DecSendRetry
    \/ DecSendTimeout

\* -------------------------------------- TaskProcessIncomingScore (Aggregator)
\* Variant of ShiftLoop: the loop stops one slot early (i < 3).
RECURSIVE ShiftLoopShort(_, _)
ShiftLoopShort(arr, i) ==
    IF i < WINDOW_SIZE - 2
      THEN ShiftLoopShort([arr EXCEPT ![i] = arr[i + 1]], i + 1)
      ELSE arr

\* Lines 198-202: for (i = 0; i < 4; i++) arr[i] = arr[i + 1].
RECURSIVE ShiftLoop(_, _)
ShiftLoop(arr, i) ==
    IF i < WINDOW_SIZE - 1
      THEN ShiftLoop([arr EXCEPT ![i] = arr[i + 1]], i + 1)
      ELSE arr

\* The slots the insertion of lines 196-211 stores into when the entry count
\* is n: slots 0..3 in the shift loop and slot 4 (lines 200-204), or slot n
\* (lines 208-209).
WriteSlots(n) == IF n = WINDOW_SIZE THEN 0..(WINDOW_SIZE - 1) ELSE {n}

\* Variant of AbsorbScore: the test numEntries == 5 of line 196 never holds.
AbsorbScoreUncapped(n, person, noPerson, buf) ==
    [n |-> n + 1,
     person |-> [person EXCEPT ![n] = buf.person],
     noPerson |-> [noPerson EXCEPT ![n] = buf.noPerson]]

\* Lines 196-211: one ScorePair pushed into both windows.
AbsorbScore(n, person, noPerson, buf) ==
    IF n = WINDOW_SIZE
      THEN [n |-> n,
            person |-> [ShiftLoop(person, 0) EXCEPT ![WINDOW_SIZE - 1] = buf.person],
            noPerson |-> [ShiftLoop(noPerson, 0) EXCEPT ![WINDOW_SIZE - 1] = buf.noPerson]]
      ELSE [n |-> n + 1,
            person |-> [person EXCEPT ![n] = buf.person],
            noPerson |-> [noPerson EXCEPT ![n] = buf.noPerson]]

\* Line 194: xQueueReceive(queue1, &inputBuffer, portMAX_DELAY) returns an item.
AggReceive ==
    /\ aggPc = "recv"
    /\ Aggregator \notin suspended
    /\ Len(queue1) > 0
    /\ inputBuffer' = Head(queue1)
    /\ queue1' = Tail(queue1)
    /\ received' = Append(received, Head(queue1))
    /\ aggPc' = "absorb"
    /\ UNCHANGED <<buildVars, suspended, fusionVars, linkVars, decVars, windowVars,
                   absorbVars, dispVars, blinkVars, lcd>>

\* Lines 196-213: the insertion, then the task function runs off its end
\* (there is no loop around the receive).  FreeRTOS does not define what a
\* task function that returns does next; the task takes no further step here.
AggAbsorb ==
    /\ aggPc = "absorb"
    /\ Aggregator \notin suspended
    /\ LET r == AbsorbScore(numEntries, recentPersonScores, recentNoPersonScores, inputBuffer)
       IN /\ numEntries' = r.n
          /\ recentPersonScores' = r.person
          /\ recentNoPersonScores' = r.noPerson
    /\ aggPc' = "returned"
    /\ UNCHANGED <<buildVars, suspended, fusionVars, linkVars, decVars, queue1,
                   inputBuffer, received, absorbVars, dispVars, blinkVars, lcd>>

AggregatorNext ==
    \/ AggReceive
    \/ AggAbsorb

\* Variant of AggTest: the received item is dropped without an insertion.
AggTestDropsItem ==
    /\ aggPc = "absorb"
    /\ Aggregator \notin suspended
    /\ aggN' = numEntries
    /\ aggStored' = {}
    /\ aggPc' = "returned"
    /\ UNCHANGED <<buildVars, suspended, fusionVars, linkVars, decVars, queue1,
                   inputBuffer, received, windowVars, dispVars, blinkVars, lcd>>

\* The same insertion store by store, as a task that reads the windows
\* meanwhile sees it.  Line 196: the test reads numEntries.
AggTest ==
    /\ aggPc = "absorb"
    /\ Aggregator \notin suspended
    /\ aggN' = numEntries
    /\ aggStored' = {}
    /\ aggPc' = "store"
    /\ UNCHANGED <<buildVars, suspended, fusionVars, linkVars, decVars, queue1,
                   inputBuffer, received, windowVars, dispVars, blinkVars, lcd>>

Stores == {"person", "noPerson", "count"}

\* Variant of StoreOrders: the stores reach memory in the order of the source text.
ProgramOrder(done) ==
    IF "person" \notin done THEN {"person"}
    ELSE IF "noPerson" \notin done THEN {"noPerson"}
    ELSE {"count"}

\* Lines 198-210 store into recentPersonScores, recentNoPersonScores and
\* numEntries: three globals, none volatile, no barrier or critical section
\* between them, read by another task meanwhile (a data race).  The order in
\* which the stores reach memory is the compiler's: any store not yet done
\* may be the next.
StoreOrders(done) == Stores \ done

\* One of the stores: a whole window (shifted first when the windows were
\* full at the test), or the entry count.
AggStore(w) ==
    /\ aggPc = "store"
    /\ Aggregator \notin suspended
    /\ w \in StoreOrders(aggStored)
    /\ LET r == AbsorbScore(aggN, recentPersonScores, recentNoPersonScores, inputBuffer)
       IN /\ recentPersonScores' = IF w = "person" THEN r.person ELSE recentPersonScores
          /\ recentNoPersonScores' =
                 IF w = "noPerson" THEN r.noPerson ELSE recentNoPersonScores
          /\ numEntries' = IF w = "count" THEN r.n ELSE numEntries
    /\ aggStored' = aggStored \cup {w}
    /\ aggPc' = IF aggStored \cup {w} = Stores THEN "returned" ELSE "store"
    /\ UNCHANGED <<buildVars, suspended, fusionVars, linkVars, decVars, queue1,
                   inputBuffer, received, aggN, dispVars, blinkVars, lcd>>

AggStoreNext == \E w \in Stores : AggStore(w)

AggregatorStepNext ==
    \/ AggReceive
    \/ AggTest
    \/ AggStoreNext

\* ----------------------------------------- TaskDisplayOutput (Renderer)
\* Lines 222-226: avg += arr[i] / numEntries for i < numEntries, kept as the
\* exact fraction num / den (values in hundredths).
RECURSIVE Gcd(_, _)
Gcd(a, b) == IF b = 0 THEN a ELSE Gcd(b, a % b)

\* A mean is kept as a fraction in lowest terms (float rounding is not modelled).
Norm(f) == LET g == Gcd(f.num, f.den) IN [num |-> f.num \div g, den |-> f.den \div g]

\* Variant of AddQuotient: the divisor is the window capacity.
AddQuotientOfCapacity(acc, x, n) ==
    Norm([num |-> acc.num * WINDOW_SIZE + x * acc.den, den |-> acc.den * WINDOW_SIZE])

\* acc += (float)x / n   (lines 224, 225).
AddQuotient(acc, x, n) == Norm([num |-> acc.num * n + x * acc.den, den |-> acc.den * n])

\* for (int i = 0; i < numEntries; i++) acc += arr[i] / numEntries;
RECURSIVE MeanLoop(_, _, _, _)
MeanLoop(arr, i, n, acc) ==
    IF i < n THEN MeanLoop(arr, i + 1, n, AddQuotient(acc, arr[i], n)) ELSE acc

\* The loop of lines 222-226 run without interruption, from acc = 0.0.
MeanOf(arr, n) == MeanLoop(arr, 0, n, ZeroMean)

\* a > t / 100 and a < t / 100 for a fraction a.
Above(a, t) == a.num > t * a.den
Below(a, t) == a.num < t * a.den

\* Variant of Band: the second test of the chain is tried first.
BandSecondFirst(p, np) ==
    IF Above(p, 70) /\ Below(np, 50) THEN "SomewhatLikely"
    ELSE IF Above(p, 80) /\ Below(np, 20) THEN "HighLikelihood"
    ELSE IF Above(p, 50) /\ Above(np, 50) THEN "Indeterminate"
    ELSE IF Below(p, 50) /\ Above(np, 50) THEN "Unlikely"
    ELSE "None"

\* Lines 228-263: the if / else-if chain.
Band(p, np) ==
    IF Above(p, 80) /\ Below(np, 20) THEN "HighLikelihood"
    ELSE IF Above(p, 70) /\ Below(np, 50) THEN "SomewhatLikely"
    ELSE IF Above(p, 50) /\ Above(np, 50) THEN "Indeterminate"
    ELSE IF Below(p, 50) /\ Above(np, 50) THEN "Unlikely"
    ELSE "None"

Label(v) ==
    CASE v = "HighLikelihood" -> "High Likelihood"
      [] v = "SomewhatLikely" -> "Somewhat Likely"
      [] v = "Indeterminate" -> "Cannot Determine"
      [] OTHER -> "Unlikely"

\* Variant of DispMean: the delay is taken on every cycle, matched or not.
DispMeanThenDelay ==
    /\ dispPc = "mean"
    /\ LET p == MeanOf(recentPersonScores, numEntries)
           np == MeanOf(recentNoPersonScores, numEntries)
       IN /\ avgPersonScore' = p
          /\ avgNoPersonScore' = np
          /\ verdict' = Band(p, np)
          /\ dispPc' = IF Band(p, np) = "None" THEN "delay" ELSE "clear"
    /\ UNCHANGED <<buildVars, suspended, fusionVars, linkVars, decVars, queue1, aggVars,
                   windowVars, dispI, blinkVars, lcd>>

\* Lines 219-255: compute both means and pick the branch.
DispMean ==
    /\ dispPc = "mean"
    /\ LET p == MeanOf(recentPersonScores, numEntries)
           np == MeanOf(recentNoPersonScores, numEntries)
       IN /\ avgPersonScore' = p
          /\ avgNoPersonScore' = np
          /\ verdict' = Band(p, np)
          /\ dispPc' = IF Band(p, np) = "None" THEN "mean" ELSE "clear"
    /\ UNCHANGED <<buildVars, suspended, fusionVars, linkVars, decVars, queue1, aggVars,
                   windowVars, dispI, blinkVars, lcd>>

DispClear ==
    /\ dispPc = "clear"
    /\ lcd' = LcdClear(lcd)
    /\ dispPc' = "print1"
    /\ UNCHANGED <<buildVars, suspended, fusionVars, linkVars, decVars, queue1, aggVars,
                   windowVars, avgPersonScore, avgNoPersonScore, verdict, dispI, blinkVars>>

DispPrint1 ==
    /\ dispPc = "print1"
    /\ lcd' = LcdPrint(lcd, Label(verdict))
    /\ dispPc' = "cursor"
    /\ UNCHANGED <<buildVars, suspended, fusionVars, linkVars, decVars, queue1, aggVars,
                   windowVars, avgPersonScore, avgNoPersonScore, verdict, dispI, blinkVars>>

DispCursor ==
    /\ dispPc = "cursor"
    /\ lcd' = LcdSetCursor(lcd, 0, 1)
    /\ dispPc' = "print2"
    /\ UNCHANGED <<buildVars, suspended, fusionVars, linkVars, decVars, queue1, aggVars,
                   windowVars, avgPersonScore, avgNoPersonScore, verdict, dispI, blinkVars>>

DispPrint2 ==
    /\ dispPc = "print2"
    /\ lcd' = LcdPrint(lcd, "Intruder Present")
    /\ dispPc' = "delay"
    /\ UNCHANGED <<buildVars, suspended, fusionVars, linkVars, decVars, queue1, aggVars,
                   windowVars, avgPersonScore, avgNoPersonScore, verdict, dispI, blinkVars>>

\* vTaskDelay(1000 / portTICK_PERIOD_MS) elapses.
DispDelay ==
    /\ dispPc = "delay"
    /\ dispPc' = "mean"
    /\ UNCHANGED <<buildVars, suspended, fusionVars, linkVars, decVars, queue1, aggVars,
                   windowVars, avgPersonScore, avgNoPersonScore, verdict, dispI, blinkVars, lcd>>

\* The same cycle read by read.  Lines 219-220 and the init of line 222.
DispBegin ==
    /\ dispPc = "mean"
    /\ avgPersonScore' = ZeroMean
    /\ avgNoPersonScore' = ZeroMean
    /\ dispI' = 0
    /\ dispPc' = "loop"
    /\ UNCHANGED <<buildVars, suspended, fusionVars, linkVars, decVars, queue1, aggVars,
                   windowVars, verdict, blinkVars, lcd>>

\* Line 222: i < numEntries reads the entry count; when it fails the chain of
\* lines 228-263 picks the branch.
DispLoopTest ==
    /\ dispPc = "loop"
    /\ IF dispI < numEntries
         THEN /\ dispPc' = "addPerson"
              /\ UNCHANGED verdict
         ELSE /\ verdict' = Band(avgPersonScore, avgNoPersonScore)
              /\ dispPc' = IF Band(avgPersonScore, avgNoPersonScore) = "None"
                             THEN "mean" ELSE "clear"
    /\ UNCHANGED <<buildVars, suspended, fusionVars, linkVars, decVars, queue1, aggVars,
                   windowVars, avgPersonScore, avgNoPersonScore, dispI, blinkVars, lcd>>

\* Line 224: reads recentPersonScores[i] and numEntries.
DispAddPerson ==
    /\ dispPc = "addPerson"
    /\ avgPersonScore' = AddQuotient(avgPersonScore, recentPersonScores[dispI], numEntries)
    /\ dispPc' = "addNoPerson"
    /\ UNCHANGED <<buildVars, suspended, fusionVars, linkVars, decVars, queue1, aggVars,
                   windowVars, avgNoPersonScore, verdict, dispI, blinkVars, lcd>>

\* Line 225: reads recentNoPersonScores[i] and numEntries; then i++.
DispAddNoPerson ==
    /\ dispPc = "addNoPerson"
    /\ avgNoPersonScore' =
           AddQuotient(avgNoPersonScore, recentNoPersonScores[dispI], numEntries)
    /\ dispI' = dispI + 1
    /\ dispPc' = "loop"
    /\ UNCHANGED <<buildVars, suspended, fusionVars, linkVars, decVars, queue1, aggVars,
                   windowVars, avgPersonScore, verdict, blinkVars, lcd>>

DisplayNext ==
    \/ DispMean
    \/ DispClear
    \/ DispPrint1
    \/ DispCursor
    \/ DispPrint2
    \/ DispDelay

DisplayStepNext ==
    \/ DispBegin
    \/ DispLoopTest
    \/ DispAddPerson
    \/ DispAddNoPerson
    \/ DispClear
    \/ DispPrint1
    \/ DispCursor
    \/ DispPrint2
    \/ DispDelay

\* ------------------------------------------------------------- TaskBlink
BlinkSetup ==
    /\ blinkPc = "pinMode"
    /\ blinkPc' = "high"
    /\ UNCHANGED <<buildVars, suspended, fusionVars, linkVars, decVars, queue1, aggVars,
                   windowVars, dispVars, led, lcd>>

\* digitalWrite(LED_PIN, HIGH); vTaskDelay(100 ms).
BlinkHigh ==
    /\ blinkPc = "high"
    /\ led' = "HIGH"
    /\ blinkPc' = "low"
    /\ UNCHANGED <<buildVars, suspended, fusionVars, linkVars, decVars, queue1, aggVars,
                   windowVars, dispVars, lcd>>

\* digitalWrite(LED_PIN, LOW); vTaskDelay(200 ms).
BlinkLow ==
    /\ blinkPc = "low"
    /\ led' = "LOW"
    /\ blinkPc' = "high"
    /\ UNCHANGED <<buildVars, suspended, fusionVars, linkVars, decVars, queue1, aggVars,
                   windowVars, dispVars, lcd>>

BlinkNext ==
    \/ BlinkSetup
    \/ BlinkHigh
    \/ BlinkLow

\* ------------------------------------------------------- specifications
PipelineNext ==
    \/ LinkArrive
    \/ DecoderRun
    \/ AggregatorNext

\* All five tasks.  Where tasks share the windows the insertion and the mean
\* loop go store by store and read by read; AggAbsorb and DispMean are the
\* same code run without interruption, used where no other task of the
\* specification touches the windows.
Next ==
    \/ LinkArrive
    \/ DecoderRun
    \/ DecoderWait
    \/ AggregatorStepNext
    \/ FusionNext
    \/ DisplayStepNext
    \/ BlinkNext

\* The whole system.
Spec == Init /\ [][Next]_vars

\* Sensor Fusion alone.
FusionSpec == Init /\ [][FusionNext]_vars

\* Inbound link, Decoder and Aggregator.
PipelineSpec == Init /\ [][PipelineNext]_vars

\* The pipeline beside a task that never blocks for good (Blink).  The
\* scheduler time-slices ready tasks of equal priority (all five are created
\* at priority 1): a task that stays ready eventually runs.
FairPipelineNext ==
    \/ PipelineNext
    \/ BlinkNext

FairPipelineSpec ==
    /\ Init /\ [][FairPipelineNext]_vars
    /\ WF_vars(DecoderRun) /\ WF_vars(AggregatorNext) /\ WF_vars(BlinkNext)

\* The Decoder running against a queue that may still hold an item: the state
\* the Decoder is in once a peer has resumed it before the item was taken.
BackpressureInit == InitTasks /\ queue1 \in {<<>>, <<NoItem>>}

BackpressureNext ==
    \/ PipelineNext
    \/ DecoderWait

BackpressureSpec == BackpressureInit /\ [][BackpressureNext]_vars

\* The window insertion of lines 196-211 applied to a sequence of received
\* items (in the task as written the receive is not in a loop).
WinItems == { [b0 |-> 0, person |-> 0, noPerson |-> 90],
              [b0 |-> 0, person |-> 30, noPerson |-> 30],
              [b0 |-> 0, person |-> 90, noPerson |-> 0] }

ApplyAbsorb ==
    /\ Len(received) < MaxInserts
    /\ \E it \in WinItems :
         LET r == AbsorbScore(numEntries, recentPersonScores, recentNoPersonScores, it)
         IN /\ inputBuffer' = it
            /\ received' = Append(received, it)
            /\ numEntries' = r.n
            /\ recentPersonScores' = r.person
            /\ recentNoPersonScores' = r.noPerson
    /\ UNCHANGED <<buildVars, suspended, fusionVars, linkVars, decVars, queue1, aggPc,
                   absorbVars, dispVars, blinkVars, lcd>>

WindowSpec == Init /\ [][ApplyAbsorb]_vars

\* The Renderer alone over windows that hold k entries, k = 0..5: one entry
\* drawn around the thresholds of lines 228-255, or several entries of two
\* values.  Slots past the entry count are zero, as line 72-73 leave them.
BandScores == {10, 20, 30, 50, 55, 60, 70, 75, 80, 85}
MeanScores == {30, 90}
ScoresFor(k) == IF k <= 1 THEN BandScores ELSE MeanScores
WindowsOf(k) ==
    { w \in [0..(WINDOW_SIZE - 1) -> ScoresFor(k) \cup {0}] :
        \A i \in 0..(WINDOW_SIZE - 1) : (i >= k) <=> (w[i] = 0) }

RendererInit ==
    /\ InitOutsideWindows
    /\ queue1 = <<>>
    /\ numEntries \in 0..WINDOW_SIZE
    /\ recentPersonScores \in WindowsOf(numEntries)
    /\ recentNoPersonScores \in WindowsOf(numEntries)

RendererSpec == RendererInit /\ [][DisplayNext]_vars

\* The build in which the two markers are '<' and '>'.
IntendedBuildInit == Init /\ START_CHAR = LT_CHAR /\ END_CHAR = GT_CHAR

\* Decoder, Aggregator and Renderer with the Aggregator's stores and the
\* Renderer's reads as separate steps.
SharedWindowNext ==
    \/ LinkArrive
    \/ DecoderRun
    \/ AggregatorStepNext
    \/ DisplayStepNext

SharedWindowSpec == IntendedBuildInit /\ [][SharedWindowNext]_vars

\* The same over every build of the markers.
SharedWindowAnyBuildSpec == Init /\ [][SharedWindowNext]_vars

\* The two tasks that write to the display from power-up on, Sensor Fusion
\* and the Decoder.
SharedDisplayNext ==
    \/ FusionNext
    \/ LinkArrive
    \/ DecoderRun

SharedDisplaySpec == IntendedBuildInit /\ [][SharedDisplayNext]_vars

\* ================================================================ claims
Min(a, b) == IF a < b THEN a ELSE b

\* The build in which both markers have the values the protocol names.
MarkersAsSpecified == START_CHAR = LT_CHAR /\ END_CHAR = GT_CHAR

\* C1: after a successful hand-off, once the Aggregator has consumed the item,
\* the Decoder is eventually resumed (it never stays suspended forever); stated
\* for the build whose markers are '<' and '>'.
C1_DecoderReactivated ==
    (MarkersAsSpecified /\ Decoder \in suspended /\ received # <<>> /\ queue1 = <<>>)
      ~> (Decoder \notin suspended)

\* C2: once two well-formed frames have arrived one after the other, both
\* hand-offs eventually complete and both windows reach length 2 (stated for
\* the build whose markers are '<' and '>').
C2_TwoFramesAbsorbed ==
    (MarkersAsSpecified /\ Arrived \in TwoFrames) ~> (numEntries = 2)

\* C3: when the send at a frame close succeeds the Decoder resumes the
\* Aggregator, then suspends itself, and while suspended it reads no link byte
\* and changes none of its state.
C3_HandOffSuspendsDecoder ==
    [][ /\ (Len(queue1') > Len(queue1)) => decPc' = "resume"
        /\ (decPc = "resume" /\ decPc' # "resume")
             => (decPc' = "suspend" /\ Aggregator \notin suspended' /\ consumed' = consumed)
        /\ (decPc = "suspend" /\ decPc' # "suspend")
             => (Decoder \in suspended' /\ consumed' = consumed)
        /\ (Decoder \in suspended)
             => (Decoder \in suspended' /\ consumed' = consumed /\ decVars' = decVars)
      ]_vars

C3_Witness ==
    /\ Decoder \in suspended
    /\ Len(completed) = 1
    /\ Len(link) > 0
    /\ queue1 # <<>>

\* C4: when the queue stays full for the whole wait of the send, the value is
\* dropped: queue and windows are unchanged, the Decoder is not suspended and is
\* back in AwaitingStart, and it goes on polling the link (a pending byte is
\* read), so a later frame is offered again.
SendTimedOut == decPc = "sendwait" /\ decPc' # "sendwait" /\ Len(queue1) >= QUEUE_LENGTH

C4_TimeoutDropsFrame ==
    /\ [][ SendTimedOut =>
             /\ queue1' = queue1
             /\ windowVars' = windowVars
             /\ Decoder \notin suspended'
             /\ ~transferInProgress'
             /\ decPc' = "poll"
             /\ completed' = completed ]_vars
    /\ []( (dropped > 0 /\ decPc = "poll" /\ Decoder \notin suspended /\ Len(link) > 0)
             => ENABLED DecPoll )

C4_Witness ==
    /\ dropped >= 1
    /\ Len(completed) >= 2
    /\ Len(queue1) = 1
    /\ decPc = "resume"

\* C5: the capture byte a Fusion cycle writes is '1' iff 150 < d < 210 and
\* d < 500 and the motion flag is true, and '0' otherwise.
CycleWritten == fusionPc \in {"clear", "print1", "cursor", "print2"}

C6_OneByte ==
    CycleWritten => (Len(txCycle) = 1 /\ txCycle[1] \in {48, 49})

\* C7: the byte stream '<', p, '>' completes exactly one frame with payload p,
\* however its bytes are split over the Decoder's polls.
C7_OneFrame ==
    \A p \in Payloads :
        consumed = <<60, p, 62>> => completed = <<ToChar(p)>>

\* In the build whose markers are '<' and '>' the stream '<', p, '>' does
\* complete the one frame.
OneFrameWhenMarkersAsSpecified == MarkersAsSpecified => C7_OneFrame

\* C8: with no frame open, a byte other than '<' (the end marker '>' included)
\* is discarded: no frame completes, nothing is sent, no frame opens.
DiscardsOutsideFrame ==
    (~transferInProgress /\ Len(consumed') > Len(consumed) /\ Last(consumed') # 60)
      => (~transferInProgress' /\ completed' = completed /\ queue1' = queue1
          /\ decPc' = "poll")

C8_DiscardOutsideFrame == [][DiscardsOutsideFrame]_vars

DiscardWhenMarkersAsSpecified == [][MarkersAsSpecified => DiscardsOutsideFrame]_vars

\* The bytes after the last '<' of s.
RECURSIVE AfterLastStart(_)
AfterLastStart(s) ==
    IF s = <<>> \/ Last(s) = 60 THEN <<>>
    ELSE Append(AfterLastStart(SubSeq(s, 1, Len(s) - 1)), Last(s))

\* C9: a further '<' inside an open frame completes no frame; a frame completes
\* only at a '>', and delivers the last byte received after the last '<'.
ClosesOnlyLastFrame ==
    /\ (transferInProgress /\ Len(consumed') > Len(consumed) /\ Last(consumed') = 60)
         => completed' = completed
    /\ (completed' # completed)
         => /\ Last(consumed') = 62
            /\ (AfterLastStart(consumed) # <<>>
                  => Last(completed') = ToChar(Last(AfterLastStart(consumed))))

C9_RestartedFrame == [][ClosesOnlyLastFrame]_vars

RestartWhenMarkersAsSpecified == [][MarkersAsSpecified => ClosesOnlyLastFrame]_vars

\* C10: after n insertions each window holds the last min(n, 5) values
\* received for its class, in arrival order.
C10_LastFive ==
    LET n == Len(received)
        k == Min(n, 5)
    IN /\ numEntries = k
       /\ \A i \in 1..k :
            /\ recentPersonScores[i - 1] = received[n - k + i].person
            /\ recentNoPersonScores[i - 1] = received[n - k + i].noPerson

C10_Witness ==
    /\ Len(received) = 7
    /\ numEntries = 5
    /\ received[1].person # received[3].person
    /\ recentPersonScores[0] = received[3].person
    /\ recentPersonScores[4] = received[7].person

\* C12: for every pair of window means the Renderer selects the first
\* matching band in the order: High Likelihood when the person mean is above
\* 0.8 and the no-person mean below 0.2; Somewhat Likely when above 0.7 and
\* below 0.5; Indeterminate when both are above 0.5; Unlikely when the person
\* mean is below 0.5 and the no-person mean above 0.5; otherwise no band.
\* (Means are in hundredths: num / den > 80 stands for mean > 0.8.)
C12_FirstMatchingBand ==
    LET p == avgPersonScore
        np == avgNoPersonScore
    IN verdict =
         IF p.num > 80 * p.den /\ np.num < 20 * np.den THEN "HighLikelihood"
         ELSE IF p.num > 70 * p.den /\ np.num < 50 * np.den THEN "SomewhatLikely"
         ELSE IF p.num > 50 * p.den /\ np.num > 50 * np.den THEN "Indeterminate"
         ELSE IF p.num < 50 * p.den /\ np.num > 50 * np.den THEN "Unlikely"
         ELSE "None"

\* Means 0.85 and 0.1 satisfy the first two tests; the first one is taken.
C12_Witness ==
    /\ avgPersonScore = [num |-> 85, den |-> 1]
    /\ avgNoPersonScore = [num |-> 10, den |-> 1]
    /\ verdict = "HighLikelihood"

\* The other examples of the table.
C12_SomewhatLikelyExample ==
    (avgPersonScore = [num |-> 75, den |-> 1] /\ avgNoPersonScore = [num |-> 30, den |-> 1])
        => verdict = "SomewhatLikely"

C12_IndeterminateExample ==
    (avgPersonScore = [num |-> 55, den |-> 1] /\ avgNoPersonScore = [num |-> 55, den |-> 1])
        => verdict = "Indeterminate"

C12_UnlikelyExample ==
    (avgPersonScore = [num |-> 30, den |-> 1] /\ avgNoPersonScore = [num |-> 60, den |-> 1])
        => verdict = "Unlikely"

\* The text pair a matched cycle leaves on the display when nothing else
\* writes to it.
Rendered(v) == [rows |-> << <<Label(v)>>, <<"Intruder Present">> >>, row |-> 1, col |-> 1]

NoBandFor(p, np) ==
    /\ ~(p.num > 80 * p.den /\ np.num < 20 * np.den)
    /\ ~(p.num > 70 * p.den /\ np.num < 50 * np.den)
    /\ ~(p.num > 50 * p.den /\ np.num > 50 * np.den)
    /\ ~(p.num < 50 * p.den /\ np.num > 50 * np.den)

CycleStep ==
    /\ (dispPc = "mean" /\ NoBandFor(avgPersonScore', avgNoPersonScore'))
          => (dispPc' = "mean" /\ lcd' = lcd)
    /\ (dispPc = "mean" /\ ~NoBandFor(avgPersonScore', avgNoPersonScore'))
          => (dispPc' = "clear" /\ lcd' = lcd)
    /\ dispPc = "clear" => dispPc' = "print1"
    /\ dispPc = "print1" => dispPc' = "cursor"
    /\ dispPc = "cursor" => dispPc' = "print2"
    /\ dispPc = "print2" => (dispPc' = "delay" /\ lcd' = Rendered(verdict))
    /\ dispPc = "delay" => (dispPc' = "mean" /\ lcd' = lcd)

\* C13: a Renderer cycle in which no band matches performs no display
\* operation and no delay before the next cycle starts; a cycle in which a
\* band matches renders that verdict once (clear, label, second row) and then
\* delays before the next cycle.
C13_NoMatchNoDisplayNoDelay == [][CycleStep]_vars

\* Both means exactly 0.5: the cycle has run, nothing was displayed and the
\* Renderer is at the head of its next cycle.
C13_Witness ==
    /\ avgPersonScore = [num |-> 50, den |-> 1]
    /\ avgNoPersonScore = [num |-> 50, den |-> 1]
    /\ dispPc = "mean" /\ verdict = "None" /\ lcd = LcdBlank

RECURSIVE SumFirst(_, _)
SumFirst(arr, k) == IF k = 0 THEN 0 ELSE SumFirst(arr, k - 1) + arr[k - 1]

\* C14: when the windows hold k entries, 1 <= k <= 5, each mean the Renderer
\* computes is the sum of exactly those k entries divided by k, never by the
\* fixed window size.
C14_MeanOverEntries ==
    (avgPersonScore.den # 0 /\ numEntries >= 1) =>
        /\ avgPersonScore.num * numEntries
              = SumFirst(recentPersonScores, numEntries) * avgPersonScore.den
        /\ avgNoPersonScore.num * numEntries
              = SumFirst(recentNoPersonScores, numEntries) * avgNoPersonScore.den

\* Two entries 0.9 and 0.3 in the person window: the mean is 0.6.
C14_Witness ==
    /\ numEntries = 2
    /\ recentPersonScores[0] = 90 /\ recentPersonScores[1] = 30
    /\ avgPersonScore = [num |-> 60, den |-> 1]

\* C15: no task function ever returns: each task runs forever, and the
\* Aggregator is back at its receive after it has absorbed an item.
C15_NoTaskReturns == aggPc # "returned"

C18_ScoresInUnitRange ==
    /\ \A i \in 1..Len(received) :
         received[i].person \in 0..100 /\ received[i].noPerson \in 0..100
    /\ \A i \in 0..(WINDOW_SIZE - 1) :
         recentPersonScores[i] \in 0..100 /\ recentNoPersonScores[i] \in 0..100

DeliversOwnPayload ==
    (completed' # completed)
        => /\ AfterLastStart(consumed) # <<>>
           /\ Last(completed') = ToChar(Last(AfterLastStart(consumed)))

\* C19: every frame the Decoder completes delivers a payload byte received
\* between that frame's own start marker and its end marker; a frame with no
\* payload byte delivers no byte kept from before its start marker.
C19_OwnPayload == [][MarkersAsSpecified => DeliversOwnPayload]_vars

\* The windows after the items of seq have been absorbed one after the other.
RECURSIVE WindowsAfter(_)
WindowsAfter(seq) ==
    IF seq = <<>>
      THEN [n |-> 0, person |-> ZeroWindow, noPerson |-> ZeroWindow]
      ELSE LET w == WindowsAfter(SubSeq(seq, 1, Len(seq) - 1))
           IN AbsorbScore(w.n, w.person, w.noPerson, Last(seq))

\* The two means are those of the windows as they stood between two insertions.
MeansOfOneState ==
    \E j \in 0..Len(received) :
       LET w == WindowsAfter(SubSeq(received, 1, j))
       IN /\ avgPersonScore = MeanOf(w.person, w.n)
          /\ avgNoPersonScore = MeanOf(w.noPerson, w.n)

CycleReadsOneState ==
    (dispPc = "loop" /\ dispPc' \in {"mean", "clear"}) => MeansOfOneState

OwnedByAggregator ==
    /\ (windowVars' # windowVars)
          => (aggPc = "store" /\ aggStored' # aggStored /\ Len(received) >= 1)
    /\ (aggPc' \in {"recv", "returned"})
          => LET w == WindowsAfter(received')
             IN /\ numEntries' = w.n
                /\ recentPersonScores' = w.person
                /\ recentNoPersonScores' = w.noPerson

\* C17: the two windows and the entry count change only in a store of the
\* Aggregator's insertion of a received item; when the Aggregator is not
\* inside an insertion the windows hold exactly one insertion per received
\* item; every other task's step leaves them unchanged.
C17_WindowsOwnedByAggregator == [][OwnedByAggregator]_vars

\* The one item has been inserted and the Renderer has rendered from it.
C17_Witness ==
    /\ aggPc = "returned" /\ Len(received) = 1 /\ numEntries = 1
    /\ dispPc = "delay"

\* What the display can show while only one task is updating it: nothing yet,
\* one task's first line, or one task's two lines.
FirstLines ==
    {" Movement ", " Standby ", " Calculating... ",
     "High Likelihood", "Somewhat Likely", "Cannot Determine", "Unlikely"}

UnmixedRows ==
    { << <<>>, <<>> >> }
       \cup { << <<t>>, <<>> >> : t \in FirstLines }
       \cup { << <<" Movement ">>, <<" Detected! ">> >> }
       \cup { << <<t>>, <<"Intruder Present">> >> :
                t \in {"High Likelihood", "Somewhat Likely", "Cannot Determine", "Unlikely"} }

\* C20: a display update by one task is never interleaved with display
\* operations of another task: the display never shows a mix of the output
\* of two tasks.
C20_NoMixedDisplay == lcd.rows \in UnmixedRows

====
